---- MODULE Spec2Model ----
(***************************************************************************)
(* SubmodulesListComponent (src/components/submodules.rs) of gitui: a      *)
(* modal popup listing the submodules of a repository, with one selected   *)
(* row, a scrolled viewport and key navigation.                            *)
(*                                                                         *)
(* A Vec<SubmoduleInfo> is represented by the snapshot of the repository   *)
(* it was read from and its length: the vector [rev |-> r, len |-> n]      *)
(* holds the entries <<r, 0>> .. <<r, n-1>>.  Two vectors are equal iff    *)
(* they have the same entries, so every empty vector is [rev 0, len 0].    *)
(* This keeps vectors longer than u16::MAX representable.                  *)
(***************************************************************************)
EXTENDS Integers, FiniteSets, Sequences, TLC

VARIABLES
    visible,          \* self.visible
    submodules,       \* self.submodules
    selection,        \* self.selection (u16)
    current_height,   \* self.current_height (Cell<u16>)
    scroll_top,       \* self.scroll (VerticalScroll): its top offset
    repo,             \* what get_submodules(&self.repo) finds on disk
    prev,             \* the component as it was when the last call began
    last,             \* the last call on the component and what it returned
    text              \* a row of get_text: the path, the width, the name drawn

vars == <<visible, submodules, selection, current_height, scroll_top,
          repo, prev, last, text>>

(***************************************************************************)
(* Bounds and integer domains                                              *)
(***************************************************************************)
MaxLen == 3
MaxHeight == 2
MaxRev == 2

U16Max == 65535

\* lengths the list provider can return: short lists, and one list whose
\* length does not fit the u16 selection index
Lens == (0..MaxLen) \cup {U16Max + 1}

\* heights of the list pane in a render (Rect.height is a u16).  A pane of
\* no lines shows no row, and the scroller's result for it is not specified,
\* so the renders modelled have at least one line; the page size is 0 until
\* the first of them.
Heights == (1..MaxHeight) \cup {U16Max}

Revs == 1..MaxRev

\* the longest path of a submodule, in characters, and the widest list pane
MaxPath == 5
MaxWidth == 17

Vec(r, n) == [rev |-> IF n = 0 THEN 0 ELSE r, len |-> n]

EmptyVec == Vec(0, 0)

Snapshots == {Vec(r, n) : r \in Revs, n \in Lens}

RepoBroken == [rev |-> -1, len |-> 0]

RepoStates == Snapshots \cup {RepoBroken}

Min(a, b) == IF a < b THEN a ELSE b

Max(a, b) == IF a > b THEN a ELSE b

\* usize -> u16 conversion (TryInto): fails above u16::MAX
TryIntoU16(n) == [ok |-> n <= U16Max, val |-> IF n <= U16Max THEN n ELSE 0]

\* u16::saturating_add
SaturatingAdd(a, b) == IF a + b > U16Max THEN U16Max ELSE a + b

\* u16::saturating_sub
SaturatingSub(a, b) == IF a < b THEN 0 ELSE a - b

(***************************************************************************)
(* Key events and the default key bindings                                 *)
(***************************************************************************)
Key(c, m) == [kind |-> "Key", code |-> c, modifiers |-> m]

GituiKeyEvent(c, m) == [code |-> c, modifiers |-> m]

KeysListDefault ==
    [exit_popup     |-> GituiKeyEvent("Esc", "NONE"),
     move_down      |-> GituiKeyEvent("Down", "NONE"),
     move_up        |-> GituiKeyEvent("Up", "NONE"),
     page_down      |-> GituiKeyEvent("PageDown", "NONE"),
     page_up        |-> GituiKeyEvent("PageUp", "NONE"),
     home           |-> GituiKeyEvent("Home", "NONE"),
     end            |-> GituiKeyEvent("End", "NONE"),
     cmd_bar_toggle |-> GituiKeyEvent("Char(.)", "NONE")]

\* key_match comparing the key codes only
key_match_code_only(ev, binding) == ev.code = binding.code

key_match(ev, binding) ==
    ev.code = binding.code /\ ev.modifiers = binding.modifiers

BoundCodes ==
    {"Esc", "Down", "Up", "PageDown", "PageUp", "Home", "End", "Char(.)"}

\* the events delivered to the component: every bound chord, two keys bound
\* to nothing here (Enter, and Down with SHIFT held), and a non-key event
Events ==
    {Key(c, "NONE") : c \in BoundCodes}
        \cup {Key("Enter", "NONE"), Key("Down", "SHIFT")}
        \cup {[kind |-> "Resize", code |-> "", modifiers |-> "NONE"]}

NoEvent == [kind |-> "None", code |-> "", modifiers |-> "NONE"]

(***************************************************************************)
(* The component                                                           *)
(***************************************************************************)
Self ==
    [visible        |-> visible,
     submodules     |-> submodules,
     selection      |-> selection,
     current_height |-> current_height,
     scroll_top     |-> scroll_top]

new ==
    [visible        |-> FALSE,
     submodules     |-> EmptyVec,
     selection      |-> 0,
     current_height |-> 0,
     scroll_top     |-> 0]

\* the candidate handed to set_selection in a call: none, or Cand(c)
NoCand == <<>>

Cand(c) == <<c>>

is_visible(s) == s.visible

\* hide that also drops the cached list
hide_clearing(s) ==
    [s EXCEPT !.visible = FALSE, !.submodules = EmptyVec, !.selection = 0]

hide(s) == [s EXCEPT !.visible = FALSE]

show(s) == [s EXCEPT !.visible = TRUE]

get_submodules(r) ==
    IF r = RepoBroken
    THEN [ok |-> FALSE, val |-> EmptyVec]
    ELSE [ok |-> TRUE, val |-> r]

\* set_selection clamping to the length instead of the last index
set_selection_to_len(s, cand) ==
    LET count == TryIntoU16(s.submodules.len) IN
    IF ~count.ok
    THEN [ok |-> FALSE, self |-> s]
    ELSE [ok   |-> TRUE,
          self |-> [s EXCEPT !.selection =
                        IF cand > count.val THEN count.val ELSE cand]]

\* set_selection converting the length with a truncating cast
set_selection_truncating(s, cand) ==
    LET num_branches == SaturatingSub(s.submodules.len % (U16Max + 1), 1) IN
    [ok   |-> TRUE,
     self |-> [s EXCEPT !.selection =
                   IF cand > num_branches THEN num_branches ELSE cand]]

set_selection(s, cand) ==
    LET count == TryIntoU16(s.submodules.len) IN
    IF ~count.ok
    THEN [ok |-> FALSE, self |-> s]
    ELSE LET num_branches == SaturatingSub(count.val, 1) IN
         [ok   |-> TRUE,
          self |-> [s EXCEPT !.selection =
                        IF cand > num_branches THEN num_branches ELSE cand]]

\* update_submodules that refreshes a hidden popup too
update_submodules_unguarded(s, r) ==
    LET got == get_submodules(r) IN
    IF ~got.ok
    THEN [ok |-> FALSE, self |-> s, calls |-> 1, cand |-> NoCand]
    ELSE LET s1 == [s EXCEPT !.submodules = got.val]
             res == set_selection(s1, s1.selection)
         IN  [ok |-> res.ok, self |-> res.self, calls |-> 1,
              cand |-> Cand(s1.selection)]

\* update_submodules that does not re-clamp the selection
update_submodules_unclamped(s, r) ==
    IF is_visible(s)
    THEN LET got == get_submodules(r) IN
         IF ~got.ok
         THEN [ok |-> FALSE, self |-> s, calls |-> 1, cand |-> NoCand]
         ELSE [ok |-> TRUE, self |-> [s EXCEPT !.submodules = got.val],
               calls |-> 1, cand |-> NoCand]
    ELSE [ok |-> TRUE, self |-> s, calls |-> 0, cand |-> NoCand]

\* update_submodules that selects the first entry of the new list
update_submodules_reset(s, r) ==
    IF is_visible(s)
    THEN LET got == get_submodules(r) IN
         IF ~got.ok
         THEN [ok |-> FALSE, self |-> s, calls |-> 1, cand |-> NoCand]
         ELSE LET s1 == [s EXCEPT !.submodules = got.val]
                  res == set_selection(s1, 0)
              IN  [ok |-> res.ok, self |-> res.self, calls |-> 1, cand |-> Cand(0)]
    ELSE [ok |-> TRUE, self |-> s, calls |-> 0, cand |-> NoCand]

\* update_submodules that swallows the provider's failure
update_submodules_swallowing(s, r) ==
    IF is_visible(s)
    THEN LET got == get_submodules(r) IN
         IF ~got.ok
         THEN [ok |-> TRUE, self |-> s, calls |-> 1, cand |-> NoCand]
         ELSE LET s1 == [s EXCEPT !.submodules = got.val]
                  res == set_selection(s1, s1.selection)
              IN  [ok |-> res.ok, self |-> res.self, calls |-> 1,
                   cand |-> Cand(s1.selection)]
    ELSE [ok |-> TRUE, self |-> s, calls |-> 0, cand |-> NoCand]

update_submodules(s, r) ==
    IF is_visible(s)
    THEN LET got == get_submodules(r) IN
         IF ~got.ok
         THEN [ok |-> FALSE, self |-> s, calls |-> 1, cand |-> NoCand]
         ELSE LET s1 == [s EXCEPT !.submodules = got.val]
                  res == set_selection(s1, s1.selection)
              IN  [ok |-> res.ok, self |-> res.self, calls |-> 1,
                   cand |-> Cand(s1.selection)]
    ELSE [ok |-> TRUE, self |-> s, calls |-> 0, cand |-> NoCand]

\* open that reuses a cached list instead of refreshing
open_cached(s, r) ==
    IF s.submodules.len > 0
    THEN [ok |-> TRUE, self |-> show(s), calls |-> 0, cand |-> NoCand]
    ELSE update_submodules(show(s), r)

open(s, r) == update_submodules(show(s), r)

\* entry i of a vector
Entry(v, i) == [rev |-> v.rev, index |-> i]

\* selected_entry reading one entry too far
selected_entry_next(s) ==
    IF s.selection + 1 < s.submodules.len
    THEN <<Entry(s.submodules, s.selection + 1)>>
    ELSE <<>>

\* Vec::get(selection): <<entry>> for Some(entry), <<>> for None
selected_entry(s) ==
    IF s.selection < s.submodules.len
    THEN <<Entry(s.submodules, s.selection)>>
    ELSE <<>>

\* one line of the detail pane: a title, the value of a field of the entry,
\* or a blank separator
InfoLine(kind, field, entry) == [kind |-> kind, field |-> field, entry |-> entry]

get_info_text(s) ==
    LET sel == selected_entry(s) IN
    IF sel = <<>>
    THEN <<>>
    ELSE <<InfoLine("title", "Path:", <<>>),
           InfoLine("value", "path", sel),
           InfoLine("blank", "", <<>>),
           InfoLine("title", "Commit:", <<>>),
           InfoLine("value", "id", sel),
           InfoLine("blank", "", <<>>),
           InfoLine("title", "Url:", <<>>),
           InfoLine("value", "url", sel),
           InfoLine("blank", "", <<>>),
           InfoLine("title", "Status:", <<>>),
           InfoLine("value", "status", sel)>>

\* move_selection reporting a command as handled only if it moved
move_selection_if_moved(s, scroll) ==
    LET count == TryIntoU16(s.submodules.len)
        new_selection ==
            CASE scroll = "Up" -> SaturatingAdd(s.selection, 1)
              [] scroll = "Down" -> SaturatingSub(s.selection, 1)
              [] scroll = "PageDown" ->
                    SaturatingAdd(s.selection, s.current_height)
              [] scroll = "PageUp" ->
                    SaturatingSub(s.selection, s.current_height)
              [] scroll = "Home" -> 0
              [] scroll = "End" -> SaturatingSub(count.val, 1)
    IN  IF scroll = "End" /\ ~count.ok
        THEN [ok |-> FALSE, self |-> s, handled |-> FALSE, cand |-> NoCand]
        ELSE LET res == set_selection(s, new_selection) IN
             [ok |-> res.ok, self |-> res.self,
              handled |-> res.ok /\ res.self.selection # s.selection,
              cand |-> Cand(new_selection)]

\* move_selection with wrapping u16 arithmetic
move_selection_wrapping(s, scroll) ==
    LET count == TryIntoU16(s.submodules.len)
        new_selection ==
            CASE scroll = "Up" -> (s.selection + 1) % (U16Max + 1)
              [] scroll = "Down" -> (s.selection - 1) % (U16Max + 1)
              [] scroll = "PageDown" ->
                    (s.selection + s.current_height) % (U16Max + 1)
              [] scroll = "PageUp" ->
                    (s.selection - s.current_height) % (U16Max + 1)
              [] scroll = "Home" -> 0
              [] scroll = "End" -> (count.val - 1) % (U16Max + 1)
    IN  IF scroll = "End" /\ ~count.ok
        THEN [ok |-> FALSE, self |-> s, handled |-> FALSE, cand |-> NoCand]
        ELSE LET res == set_selection(s, new_selection) IN
             [ok |-> res.ok, self |-> res.self, handled |-> res.ok,
              cand |-> Cand(new_selection)]

move_selection(s, scroll) ==
    LET count == TryIntoU16(s.submodules.len)
        new_selection ==
            CASE scroll = "Up" -> SaturatingAdd(s.selection, 1)
              [] scroll = "Down" -> SaturatingSub(s.selection, 1)
              [] scroll = "PageDown" ->
                    SaturatingAdd(s.selection, s.current_height)
              [] scroll = "PageUp" ->
                    SaturatingSub(s.selection, s.current_height)
              [] scroll = "Home" -> 0
              [] scroll = "End" -> SaturatingSub(count.val, 1)
    IN  IF scroll = "End" /\ ~count.ok
        THEN [ok |-> FALSE, self |-> s, handled |-> FALSE, cand |-> NoCand]
        ELSE LET res == set_selection(s, new_selection) IN
             [ok |-> res.ok, self |-> res.self, handled |-> res.ok,
              cand |-> Cand(new_selection)]

\* From<bool> for EventState, applied by .map(Into::into)
IntoEventState(ok, handled) ==
    IF ~ok THEN "None" ELSE IF handled THEN "Consumed" ELSE "NotConsumed"

Moved(s, scroll) ==
    LET res == move_selection(s, scroll) IN
    [ok |-> res.ok, self |-> res.self,
     state |-> IntoEventState(res.ok, res.handled), cand |-> res.cand]

Done(s, state) == [ok |-> TRUE, self |-> s, state |-> state, cand |-> NoCand]

event(s, ev) ==
    LET keys == KeysListDefault IN
    IF ~s.visible THEN Done(s, "NotConsumed")
    ELSE IF ev.kind # "Key" THEN Done(s, "Consumed")
    ELSE IF key_match(ev, keys.exit_popup) THEN Done(hide(s), "Consumed")
    ELSE IF key_match(ev, keys.move_down) THEN Moved(s, "Up")
    ELSE IF key_match(ev, keys.move_up) THEN Moved(s, "Down")
    ELSE IF key_match(ev, keys.page_down) THEN Moved(s, "PageDown")
    ELSE IF key_match(ev, keys.page_up) THEN Moved(s, "PageUp")
    ELSE IF key_match(ev, keys.home) THEN Moved(s, "Home")
    ELSE IF key_match(ev, keys.end) THEN Moved(s, "End")
    ELSE IF key_match(ev, keys.cmd_bar_toggle) THEN Done(s, "NotConsumed")
    ELSE Done(s, "Consumed")

\* VerticalScroll::update: the new top offset of the window
calc_scroll_top(current_top, sel, selection_max, height_in_lines) ==
    LET stepped ==
            IF sel < current_top THEN sel
            ELSE IF sel >= current_top + height_in_lines
                 THEN sel - height_in_lines + 1
                 ELSE current_top
    IN  IF selection_max <= height_in_lines THEN 0 ELSE stepped

\* get_text drawing the rows from the first entry of the list
get_text_unskipped(s, height) ==
    LET top == s.scroll_top
        rows == Min(height, s.submodules.len)
        underflow == rows > 0 /\ s.selection < top
    IN  [first |-> 0, rows |-> rows, underflow |-> underflow,
         selected |-> IF underflow
                      THEN {}
                      ELSE {s.selection - top} \cap (0..(rows - 1))]

\* the rows of the list pane: the entries skip(top).take(height), row i
\* showing entry first + i and being styled as selected iff
\* selection - top == i.  The subtraction is in usize: computed for a row
\* with selection < top it panics or wraps to a value no row index equals
\* (underflow), and then no row is selected.
get_text(s, height) ==
    LET top == s.scroll_top
        rows == Min(height, Max(0, s.submodules.len - top))
        underflow == rows > 0 /\ s.selection < top
    IN  [first |-> top, rows |-> rows, underflow |-> underflow,
         selected |-> IF underflow
                      THEN {}
                      ELSE {s.selection - top} \cap (0..(rows - 1))]

\* draw_list scrolling from the top of the list on every frame
draw_list_from_zero(s, height) ==
    LET h == TryIntoU16(height) IN
    IF ~h.ok
    THEN [ok |-> FALSE, self |-> s]
    ELSE [ok   |-> TRUE,
          self |-> [s EXCEPT
                      !.current_height = h.val,
                      !.scroll_top =
                          calc_scroll_top(0, s.selection, s.submodules.len,
                                          height)]]

\* draw_list scrolling the selection to the first row on every frame
draw_list_selection_on_top(s, height) ==
    LET h == TryIntoU16(height) IN
    IF ~h.ok
    THEN [ok |-> FALSE, self |-> s]
    ELSE [ok   |-> TRUE,
          self |-> [s EXCEPT
                      !.current_height = h.val,
                      !.scroll_top =
                          calc_scroll_top(s.selection, s.selection,
                                          s.submodules.len, height)]]

\* draw_list scrolling by the height of the previous frame
draw_list_stale_height(s, height) ==
    LET h == TryIntoU16(height) IN
    IF ~h.ok
    THEN [ok |-> FALSE, self |-> s]
    ELSE [ok   |-> TRUE,
          self |-> [s EXCEPT
                      !.current_height = h.val,
                      !.scroll_top =
                          calc_scroll_top(s.scroll_top, s.selection,
                                          s.submodules.len,
                                          s.current_height)]]

draw_list(s, height) ==
    LET h == TryIntoU16(height) IN
    IF ~h.ok
    THEN [ok |-> FALSE, self |-> s]
    ELSE [ok   |-> TRUE,
          self |-> [s EXCEPT
                      !.current_height = h.val,
                      !.scroll_top =
                          calc_scroll_top(s.scroll_top, s.selection,
                                          s.submodules.len, height)]]

\* draw that renders a hidden popup too
draw_unguarded(s, height) == draw_list(s, height)

draw(s, height) ==
    IF is_visible(s) THEN draw_list(s, height) ELSE [ok |-> TRUE, self |-> s]

(***************************************************************************)
(* The name column of get_text                                             *)
(***************************************************************************)
\* a character: its UTF-8 length and its display width
Char(c, bytes, width) == [c |-> c, bytes |-> bytes, width |-> width]

\* an ASCII letter, a two-byte letter of width 1, a three-byte wide letter
Letters == {Char("a", 1, 1), Char("e'", 2, 1), Char("W", 3, 2)}

Dot == Char(".", 1, 1)

Space == Char(" ", 1, 1)

THREE_DOTS == <<Dot, Dot, Dot>>

THREE_DOTS_LENGTH == 3

COMMIT_HASH_LENGTH == 8

RECURSIVE ByteLen(_)
\* str::len: the length in bytes
ByteLen(str) ==
    IF str = <<>> THEN 0 ELSE Head(str).bytes + ByteLen(Tail(str))

RECURSIVE DisplayWidth(_)
\* the display width of a string
DisplayWidth(str) ==
    IF str = <<>> THEN 0 ELSE Head(str).width + DisplayWidth(Tail(str))

RECURSIVE unicode_truncate(_, _)
\* UnicodeTruncateStr::unicode_truncate: the longest prefix of str that is
\* at most max_width wide; it returns the prefix and leaves str as it is
unicode_truncate(str, max_width) ==
    IF str = <<>> \/ Head(str).width > max_width
    THEN <<>>
    ELSE <<Head(str)>> \o unicode_truncate(Tail(str),
                                           max_width - Head(str).width)

\* the budget of the name column
name_length(width_available) ==
    SaturatingSub(SaturatingSub(width_available, COMMIT_HASH_LENGTH),
                  THREE_DOTS_LENGTH)

\* the text of the name: the value returned by unicode_truncate is dropped,
\* so a path longer than the budget keeps all its characters and gets the
\* dots appended
module_path(path, width_available) ==
    LET dropped == unicode_truncate(
                       path,
                       SaturatingSub(name_length(width_available),
                                     THREE_DOTS_LENGTH))
    IN  IF ByteLen(path) > name_length(width_available)
        THEN path \o THREE_DOTS
        ELSE path

\* format!("{:w$} ", module_path, w = name_length): padded with spaces to
\* name_length characters, and one more space
span_name(path, width_available) ==
    LET name == module_path(path, width_available)
        pad == SaturatingSub(name_length(width_available), Len(name))
    IN  name \o [i \in 1..pad |-> Space] \o <<Space>>

RECURSIVE PathsOf(_)
PathsOf(n) ==
    IF n = 0
    THEN {<<>>}
    ELSE LET shorter == PathsOf(n - 1) IN
         shorter \cup {<<c>> \o str : c \in Letters,
                                      str \in {q \in shorter : Len(q) = n - 1}}

Paths == PathsOf(MaxPath)

\* widths of the list pane whose name budget holds the dots at least
Widths ==
    (COMMIT_HASH_LENGTH + THREE_DOTS_LENGTH + THREE_DOTS_LENGTH)..MaxWidth

NoText ==
    [path |-> <<>>, width |-> 0, name |-> <<>>, span |-> <<>>,
     drawn |-> FALSE]

(***************************************************************************)
(* State machine                                                           *)
(***************************************************************************)
\* the logical command a key chord stands for
Command(ev) ==
    CASE ev = Key("Esc", "NONE") -> "Close"
      [] ev = Key("Down", "NONE") -> "LineForward"
      [] ev = Key("Up", "NONE") -> "LineBackward"
      [] ev = Key("PageDown", "NONE") -> "PageForward"
      [] ev = Key("PageUp", "NONE") -> "PageBackward"
      [] ev = Key("Home", "NONE") -> "Home"
      [] ev = Key("End", "NONE") -> "End"
      [] OTHER -> "None"

NavigationCommands ==
    {"LineForward", "LineBackward", "PageForward", "PageBackward", "Home",
     "End"}

\* what a call was, as far as the render after it is concerned: a render of
\* the visible popup ("draw"), one LineForward or LineBackward made right
\* after such a render ("line"), a Home or an End, or anything else
KindOf(call, before) ==
    LET cmd == Command(call.ev)
        moved == call.op = "event" /\ before.visible /\ call.ok
    IN  IF call.op = "draw" /\ before.visible /\ call.ok THEN "draw"
        ELSE IF moved /\ cmd \in {"Home", "End"} THEN cmd
        ELSE IF /\ moved
                /\ cmd \in {"LineForward", "LineBackward"}
                /\ call.after = "draw"
             THEN "line"
             ELSE "other"

\* a call and what it returned; after is the kind of the call before it
Call(op, ok, state, calls, cand, ev, height) ==
    [op |-> op, ok |-> ok, state |-> state, calls |-> calls, cand |-> cand,
     ev |-> ev, height |-> height, after |-> KindOf(last, prev)]

Becomes(s) ==
    /\ visible' = s.visible
    /\ submodules' = s.submodules
    /\ selection' = s.selection
    /\ current_height' = s.current_height
    /\ scroll_top' = s.scroll_top
    /\ prev' = Self
    /\ UNCHANGED text

Init ==
    /\ visible = new.visible
    /\ submodules = new.submodules
    /\ selection = new.selection
    /\ current_height = new.current_height
    /\ scroll_top = new.scroll_top
    /\ repo \in RepoStates
    /\ prev = new
    /\ last = [op |-> "new", ok |-> TRUE, state |-> "None", calls |-> 0,
               cand |-> NoCand, ev |-> NoEvent, height |-> 0,
               after |-> "other"]
    /\ text = NoText

Open ==
    LET res == open(Self, repo) IN
    /\ Becomes(res.self)
    /\ last' = Call("open", res.ok, "None", res.calls, res.cand, NoEvent, 0)
    /\ UNCHANGED repo

UpdateSubmodules ==
    LET res == update_submodules(Self, repo) IN
    /\ Becomes(res.self)
    /\ last' = Call("update_submodules", res.ok, "None", res.calls, res.cand,
                    NoEvent, 0)
    /\ UNCHANGED repo

Hide ==
    /\ Becomes(hide(Self))
    /\ last' = Call("hide", TRUE, "None", 0, NoCand, NoEvent, 0)
    /\ UNCHANGED repo

EventStep ==
    \E ev \in Events :
        LET res == event(Self, ev) IN
        /\ Becomes(res.self)
        /\ last' = Call("event", res.ok, res.state, 0, res.cand, ev, 0)
        /\ UNCHANGED repo

Draw ==
    \E height \in Heights :
        LET res == draw(Self, height) IN
        /\ Becomes(res.self)
        /\ last' = Call("draw", res.ok, "None", 0, NoCand, NoEvent, height)
        /\ UNCHANGED repo

\* the repository changes on disk, or becomes unreadable
RepoChange ==
    /\ repo' \in RepoStates \ {repo}
    /\ Becomes(Self)
    /\ last' = Call("repo", TRUE, "None", 0, NoCand, NoEvent, 0)

Next ==
    \/ Open
    \/ UpdateSubmodules
    \/ Hide
    \/ EventStep
    \/ Draw
    \/ RepoChange

Spec == Init /\ [][Next]_vars

\* the name column alone: get_text draws the row of one submodule path in a
\* list pane of some width
InitText ==
    /\ visible = new.visible
    /\ submodules = new.submodules
    /\ selection = new.selection
    /\ current_height = new.current_height
    /\ scroll_top = new.scroll_top
    /\ repo = EmptyVec
    /\ prev = new
    /\ last = [op |-> "new", ok |-> TRUE, state |-> "None", calls |-> 0,
               cand |-> NoCand, ev |-> NoEvent, height |-> 0,
               after |-> "other"]
    /\ text \in {[NoText EXCEPT !.path = path, !.width = width] :
                    path \in Paths, width \in Widths}

DrawName ==
    /\ ~text.drawn
    /\ text' = [text EXCEPT
                  !.name = module_path(text.path, text.width),
                  !.span = span_name(text.path, text.width),
                  !.drawn = TRUE]
    /\ UNCHANGED <<visible, submodules, selection, current_height,
                   scroll_top, repo, prev, last>>

NextText ==
    \/ DrawName

SpecText == InitText /\ [][NextText]_vars

(***************************************************************************)
(* Properties                                                              *)
(***************************************************************************)
NumRecords == submodules.len

LastIndex == IF NumRecords = 0 THEN 0 ELSE NumRecords - 1

Refreshing == last.op \in {"open", "update_submodules"}

KeyEventWhileVisible == last.op = "event" /\ prev.visible /\ last.ev.kind = "Key"

Navigating == KeyEventWhileVisible /\ Command(last.ev) \in NavigationCommands

\* the index a command asks for, in unbounded integers
Target(cmd, sel, page_size, len) ==
    CASE cmd = "LineForward" -> sel + 1
      [] cmd = "LineBackward" -> Max(0, sel - 1)
      [] cmd = "PageForward" -> sel + page_size
      [] cmd = "PageBackward" -> Max(0, sel - page_size)
      [] cmd = "Home" -> 0
      [] cmd = "End" -> len - 1

Clamp(i, len) == Max(0, Min(i, Max(0, len - 1)))

Candidates == (0..(MaxLen + 1)) \cup {U16Max}

\* C1: in every reachable state selected_index is within [0, len(records)-1]
\* when records is non-empty and is 0 when records is empty.
SelectionInRange ==
    IF NumRecords = 0 THEN selection = 0 ELSE selection \in 0..(NumRecords - 1)

\* C1 witness: End has moved the selection to the last of several records.
SelectionInRangeWitness ==
    /\ Navigating
    /\ Command(last.ev) = "End"
    /\ NumRecords \in 3..U16Max
    /\ prev.selection = 0
    /\ selection = NumRecords - 1

\* C2: right after a render of the visible popup with height > 0 and
\* non-empty records, top_offset <= selected_index < top_offset + height.
ViewportInvariant ==
    (last.op = "draw" /\ prev.visible /\ last.height > 0 /\ NumRecords > 0)
        => /\ scroll_top <= selection
           /\ selection < scroll_top + last.height

\* C2 witness: a render with a height other than the previous one had to
\* scroll down to the selection.
ViewportInvariantWitness ==
    /\ last.op = "draw"
    /\ prev.visible
    /\ last.height > 0
    /\ last.height # prev.current_height
    /\ NumRecords > last.height
    /\ scroll_top > prev.scroll_top
    /\ selection = scroll_top + last.height - 1

\* C3 as stated: set_selection(candidate) stores min(candidate, len-1), or 0
\* for an empty list, for every candidate and every record list.
SetSelectionClampsEveryList ==
    (last.cand # NoCand) => selection = Min(last.cand[1], LastIndex)

\* C3 amended: set_selection(candidate) stores min(candidate, len-1), or 0
\* for an empty list, when the list has at most 65535 records; on a longer
\* list it returns a failure and leaves selected_index as it was.
SetSelectionClamps ==
    /\ (last.cand # NoCand) =>
          IF NumRecords <= U16Max
          THEN last.ok /\ selection = Min(last.cand[1], LastIndex)
          ELSE ~last.ok /\ selection = prev.selection
    /\ \A cand \in Candidates :
          LET res == set_selection(Self, cand) IN
          IF NumRecords <= U16Max
          THEN res.ok /\ res.self.selection = Min(cand, LastIndex)
                      /\ res.self = [Self EXCEPT !.selection = res.self.selection]
          ELSE ~res.ok /\ res.self = Self

\* C3 witness: a candidate past the end of a non-empty list was clamped to
\* its last index.
SetSelectionClampsWitness ==
    /\ last.cand # NoCand
    /\ last.ok
    /\ NumRecords > 0
    /\ last.cand[1] > NumRecords - 1
    /\ selection = NumRecords - 1

PageSizeIsLastHeight ==
    current_height =
        IF last.op = "draw" /\ prev.visible
        THEN last.height
        ELSE prev.current_height

OpenRefreshesOnce ==
    (last.op = "open") => visible /\ last.calls = 1

\* C6 witness: an open() of the hidden popup that still held records.
OpenRefreshesOnceWitness ==
    /\ last.op = "open"
    /\ ~prev.visible
    /\ prev.submodules.len > 0
    /\ visible
    /\ last.calls = 1

ProviderFailed == Refreshing /\ last.calls = 1 /\ repo = RepoBroken

\* C7 as stated: when the list provider fails in open() or refresh, the
\* failure is returned and the visibility is what it was before the call.
ProviderFailureKeepsVisibility ==
    ProviderFailed => ~last.ok /\ visible = prev.visible

\* C7 amended: when the list provider fails in open() or refresh, the
\* failure is returned; after a failed open() the popup is visible, whatever
\* it was before, and a failed refresh leaves the visibility as it was.
ProviderFailureReturned ==
    ProviderFailed =>
        /\ ~last.ok
        /\ visible = (IF last.op = "open" THEN TRUE ELSE prev.visible)

\* C7 witness: open() of the hidden popup failed in the provider.
ProviderFailureReturnedWitness ==
    /\ ProviderFailed
    /\ last.op = "open"
    /\ ~prev.visible
    /\ ~last.ok

\* C8: whenever open() or refresh returns a failure, records is what it was
\* before the call.
FailureLeavesRecords ==
    (Refreshing /\ ~last.ok) => submodules = prev.submodules

Closing ==
    \/ last.op = "hide"
    \/ KeyEventWhileVisible /\ Command(last.ev) = "Close"

\* C9: close(), and the close chord while visible, hide the popup and leave
\* records, selected_index, page size and top_offset unchanged.
CloseKeepsData ==
    Closing => ~visible /\ Self = [prev EXCEPT !.visible = FALSE]

\* C9 witness: the close chord hid a popup scrolled down to a selection.
CloseKeepsDataWitness ==
    /\ KeyEventWhileVisible
    /\ Command(last.ev) = "Close"
    /\ ~visible
    /\ selection > 0
    /\ scroll_top > 0
    /\ current_height > 0

Unmatched == KeyEventWhileVisible /\ Command(last.ev) = "None"

\* C10 as stated: while visible, a key event matching neither the close
\* chord nor a navigation chord is not consumed and changes no state.
UnmatchedKeysNotConsumed ==
    Unmatched => last.state = "NotConsumed" /\ Self = prev

\* C10 amended: while visible, a key event matching neither the close chord
\* nor a navigation chord changes no state; it is not consumed if it is the
\* command-bar toggle chord and consumed otherwise.
OnlyToggleNotConsumed ==
    Unmatched =>
        /\ last.ok
        /\ Self = prev
        /\ last.state = (IF last.ev = Key("Char(.)", "NONE")
                         THEN "NotConsumed"
                         ELSE "Consumed")

\* C10 witness: the command-bar toggle chord fell through a visible popup.
OnlyToggleNotConsumedWitness ==
    /\ Unmatched
    /\ last.ev = Key("Char(.)", "NONE")
    /\ last.state = "NotConsumed"
    /\ NumRecords > 0

SelectedRecordIffNonEmpty ==
    /\ (selected_entry(Self) = <<>>) <=> (NumRecords = 0)
    /\ (get_info_text(Self) = <<>>) <=> (NumRecords = 0)
    /\ (NumRecords > 0) =>
          selected_entry(Self) = <<Entry(submodules, selection)>>
    /\ (Navigating /\ Command(last.ev) = "End" /\ NumRecords = 0) =>
          last.ok /\ selection = 0

\* C12 witness: End was pressed on a visible popup with no records.
SelectedRecordIffNonEmptyWitness ==
    /\ Navigating
    /\ Command(last.ev) = "End"
    /\ NumRecords = 0
    /\ last.ok
    /\ selected_entry(Self) = <<>>
    /\ get_info_text(Self) = <<>>

\* C15 as stated: set_selection never fails, whatever the candidate and the
\* length of the list.
SetSelectionNeverFails ==
    (last.cand # NoCand) => last.ok

\* C15 amended: set_selection succeeds for every candidate on a list of at
\* most 65535 records; on a longer list it returns a conversion failure and
\* changes nothing.
SetSelectionFailsOnLongListsOnly ==
    /\ (last.cand # NoCand) => (last.ok <=> NumRecords <= U16Max)
    /\ \A cand \in Candidates :
          LET res == set_selection(Self, cand) IN
          /\ res.ok <=> NumRecords <= U16Max
          /\ ~res.ok => res.self = Self

\* C15 witness: set_selection was called on a list of more than 65535
\* records and failed.
SetSelectionFailsOnLongListsOnlyWitness ==
    /\ last.cand # NoCand
    /\ NumRecords > U16Max
    /\ ~last.ok
    /\ selection = prev.selection

HiddenRefresh == last.op = "update_submodules" /\ ~prev.visible

\* C16 as stated: a refresh while the popup is hidden replaces records by
\* the provider's sequence and re-clamps selected_index.
HiddenRefreshApplied ==
    (HiddenRefresh /\ repo # RepoBroken) =>
        /\ submodules = repo
        /\ selection = Min(prev.selection, LastIndex)

\* C16 amended: a refresh while the popup is hidden returns success without
\* calling the provider and leaves records and selected_index as they were.
HiddenRefreshSkipped ==
    HiddenRefresh => last.ok /\ last.calls = 0 /\ Self = prev

\* C16 witness: a refresh of the hidden popup while the repository held
\* other records than the cached ones.
HiddenRefreshSkippedWitness ==
    /\ HiddenRefresh
    /\ repo \in Snapshots
    /\ repo # submodules
    /\ NumRecords > 0
    /\ repo.len < selection

Rendered == last.op = "draw" /\ prev.visible /\ last.ok

\* C18: in every render with non-empty records and height > 0 exactly one
\* row of the list pane is selected, it shows records[selected_index], the
\* record of the detail pane, and selected_index - top_offset is not
\* negative.
PanesAgree ==
    (Rendered /\ last.height > 0 /\ NumRecords > 0) =>
        LET txt == get_text(Self, last.height)
            info == get_info_text(Self)
        IN  /\ ~txt.underflow
            /\ Cardinality(txt.selected) = 1
            /\ \A row \in txt.selected :
                  /\ <<Entry(submodules, txt.first + row)>> = selected_entry(Self)
                  /\ txt.first + row = selection
            /\ info # <<>>
            /\ info[2].entry = <<Entry(submodules, selection)>>

\* C18 witness: a render of a scrolled list whose selected row is not the
\* first row.
PanesAgreeWitness ==
    /\ Rendered
    /\ last.height > 1
    /\ scroll_top > 0
    /\ selection > scroll_top
    /\ get_text(Self, last.height).selected = {selection - scroll_top}

\* C20: while the popup is hidden every key event is not consumed and
\* changes nothing, and a render changes neither page size nor top_offset.
HiddenIgnoresInput ==
    /\ (last.op = "event" /\ ~prev.visible) =>
          last.ok /\ last.state = "NotConsumed" /\ Self = prev
    /\ (last.op = "draw" /\ ~prev.visible) => last.ok /\ Self = prev

\* C20 witness: End arrived at a hidden popup whose selection was not on
\* the last record.
HiddenIgnoresInputWitness ==
    /\ last.op = "event"
    /\ ~prev.visible
    /\ last.ev = Key("End", "NONE")
    /\ NumRecords > 1
    /\ selection < NumRecords - 1
    /\ last.state = "NotConsumed"

InWindow(i, top, height) == top <= i /\ i < top + height

\* C13: scroll minimality: when exactly one LineForward or LineBackward is
\* made between two renders of the same height and the same records, and
\* the new selected_index lies in the window of the first render, the second
\* render leaves top_offset as the first one set it.
ScrollMinimality ==
    (/\ Rendered
     /\ last.after = "line"
     /\ last.height = prev.current_height
     /\ InWindow(selection, prev.scroll_top, last.height))
        => scroll_top = prev.scroll_top

\* C13 witness: between two renders of height 2 or more the selection moved
\* up by one to the first row of a scrolled window, which stayed in place.
ScrollMinimalityWitness ==
    /\ Rendered
    /\ last.after = "line"
    /\ last.height = prev.current_height
    /\ last.height > 1
    /\ NumRecords > last.height
    /\ prev.scroll_top > 0
    /\ selection = prev.scroll_top
    /\ scroll_top = prev.scroll_top

\* C17 as stated: after every render top_offset <= max(0, len - height);
\* End followed by a render gives top_offset = max(0, len - height) and Home
\* followed by a render gives top_offset = 0.
WindowEndsInList ==
    Rendered =>
        /\ scroll_top <= Max(0, NumRecords - last.height)
        /\ (last.after = "End") =>
              scroll_top = Max(0, NumRecords - last.height)
        /\ (last.after = "Home") => scroll_top = 0

\* C17 amended: after every render top_offset is 0 whenever len <= height;
\* with len > height it may exceed len - height.  With height > 0, Home
\* followed by a render gives top_offset = 0, and End followed by a render
\* gives a window holding the last record, max(0, len - height) <=
\* top_offset <= len - 1.
TopOffsetBounds ==
    Rendered =>
        /\ (NumRecords <= last.height) => scroll_top = 0
        /\ (last.after = "Home" /\ last.height > 0) => scroll_top = 0
        /\ (last.after = "End" /\ last.height > 0 /\ NumRecords > 0) =>
              /\ selection = NumRecords - 1
              /\ Max(0, NumRecords - last.height) <= scroll_top
              /\ scroll_top <= NumRecords - 1

\* C17 witness: End followed by a render left the window reaching past the
\* last record.
TopOffsetBoundsWitness ==
    /\ Rendered
    /\ last.after = "End"
    /\ last.height > 0
    /\ NumRecords > last.height
    /\ scroll_top > NumRecords - last.height
    /\ scroll_top = selection

\* C19 as stated: top_offset after a render is a function of selected_index,
\* len(records) and height alone.  Every such triple is also reached by
\* navigating before the first render, from top_offset 0, so the function
\* would have to be the one that history yields.
TopOffsetFromSelectionAlone ==
    Rendered =>
        scroll_top = calc_scroll_top(0, selection, NumRecords, last.height)

\* C19 amended: top_offset after a render with height > 0 is determined by
\* selected_index, len(records), height and the top_offset before the
\* render: 0 if len <= height, else selected_index if that is above the old
\* window, selected_index - height + 1 if it is below it, else the old
\* top_offset.
TopOffsetFromPreviousTop ==
    (Rendered /\ last.height > 0) =>
        scroll_top =
            IF NumRecords <= last.height THEN 0
            ELSE IF selection < prev.scroll_top THEN selection
            ELSE IF selection >= prev.scroll_top + last.height
                 THEN selection - last.height + 1
                 ELSE prev.scroll_top

\* C19 witness: a render whose top_offset differs from the one the same
\* selection, length and height give when reached before any render.
TopOffsetFromPreviousTopWitness ==
    /\ Rendered
    /\ last.height > 0
    /\ scroll_top = prev.scroll_top
    /\ scroll_top # calc_scroll_top(0, selection, NumRecords, last.height)

Budget == name_length(text.width)

\* C14: a name at most as wide as the budget B is drawn unchanged, and a
\* wider name is drawn as the first B - len(ellipsis) width units of the
\* name followed by the ellipsis, exactly B width units in all.
NameFitsBudget ==
    text.drawn =>
        IF DisplayWidth(text.path) <= Budget
        THEN text.name = text.path
        ELSE /\ DisplayWidth(text.name) = Budget
             /\ text.name =
                    unicode_truncate(text.path, Budget - THREE_DOTS_LENGTH)
                        \o THREE_DOTS

====
